---- MODULE Spec2Model ----
(***************************************************************************)
(* Model of alternativepy.py: the install / remove / clean commands acting *)
(* on the PythonVersions directory (DOWNLOAD_LOCATION) and the bin         *)
(* directory of altpy- symlinks (LINKS_LOCATION).                          *)
(*                                                                         *)
(* Strings are sequences of one-character strings, so that slicing         *)
(* (version[:3]) and str.replace are computed as Python computes them.     *)
(***************************************************************************)
EXTENDS Integers, Sequences, FiniteSets, TLC

VARIABLES
    fs,      \* the filesystem: PythonVersions and bin
    pc,      \* position of the running command ("idle" when none runs)
    arg,     \* the version argument of the running command
    todo,    \* clean_versions: the entries of the listing not yet visited
    cores,   \* build_python_version: core_output
    result,  \* how the running command ended ("running" until it has)
    trace,   \* the steps the running command has executed, in order
    pre,     \* the filesystem when the running command started
    catalog, \* what the site answered to the running command's query
    stopped, \* the version whose removal the previous command left half done
    faults,  \* external failures that have happened so far
    runner   \* execute_terminal_command: the call, its child and the two pipes

vars ==
    <<fs, pc, arg, todo, cores, result, trace, pre, catalog, stopped, faults,
      runner>>

\* Number of failures of local external steps (fetch, extract, configure,
\* nproc, make, make altinstall, ln, os.remove) in one run of the model.
MaxFaults == 2

\* Lines a command writes before it exits, and lines a pipe holds before a
\* write to it blocks.
MaxLines == 4
PipeCap == 2

----------------------------------------------------------------------------
\* Strings

Digits == {"0", "1", "2", "3", "4", "5", "6", "7", "8", "9"}

V27 == <<"2", ".", "7">>
V279 == <<"2", ".", "7", ".", "9">>
V3114 == <<"3", ".", "1", "1", ".", "4">>

\* Arguments that are no published version: not starting with a digit,
\* empty, and well-formed but absent from the listing.
VMalformed == <<"x">>
VEmpty == <<>>
VUnlisted == <<"9">>

Vers == {V27, V279, V3114}
ArgVersions == Vers \cup {VMalformed, VEmpty, VUnlisted}

Python27 == <<"p", "y", "t", "h", "o", "n", "2", ".", "7">>
Python311 == <<"p", "y", "t", "h", "o", "n", "3", ".", "1", "1">>
Pydoc == <<"p", "y", "d", "o", "c">>

AltpyPrefix == <<"a", "l", "t", "p", "y", "-">>
PythonDash == <<"P", "y", "t", "h", "o", "n", "-">>
DotTgz == <<".", "t", "g", "z">>

\* The executables `make altinstall` puts into <prefix>/bin.  Python 2.7
\* installs its scripts (pydoc, idle, ...) without a version suffix.
BinOf(v) ==
    IF v = V3114 THEN {Python311} ELSE {Python27, Pydoc}

\* s[:n]
Take(s, n) == SubSeq(s, 1, IF n < Len(s) THEN n ELSE Len(s))

\* s[:-1]
DropLast(s) == SubSeq(s, 1, Len(s) - 1)

\* s.replace(old, new) for a non-empty old: every non-overlapping
\* occurrence, scanning from the left.
RECURSIVE Replace(_, _, _)
Replace(s, old, new) ==
    IF Len(s) < Len(old) THEN s
    ELSE IF SubSeq(s, 1, Len(old)) = old
         THEN new \o Replace(SubSeq(s, Len(old) + 1, Len(s)), old, new)
         ELSE <<Head(s)>> \o Replace(Tail(s), old, new)

\* The executable's name taken as the link name, whatever the version
LinkNameNoSubstitution(version, exe) == exe

\* link_name of create_symlinks and delete_version
LinkName(version, exe) ==
    IF Len(version) > 3
    THEN Replace(exe, Take(version, 3), version)
    ELSE exe

\* f"altpy-{link_name}"
AliasName(version, exe) == AltpyPrefix \o LinkName(version, exe)

BuildName(v) == PythonDash \o v
TgzName(v) == v \o DotTgz

Perms(S) ==
    {s \in [1..Cardinality(S) -> S] : \A x \in S : \E i \in DOMAIN s : s[i] = x}

----------------------------------------------------------------------------
\* The remote listing

Listing1 ==
    << <<".", ".", "/">>,
       <<"2", ".", "7", "/">>,
       <<"2", ".", "7", ".", "9", "/">>,
       <<"3", ".", "1", "1", ".", "4", "/">>,
       <<"b", "i", "n", "/">>,
       <<"9", "/">> >>

\* The same listing once 2.7.9 is no longer published.
Listing2 ==
    << <<".", ".", "/">>,
       <<"2", ".", "7", "/">>,
       <<"3", ".", "1", "1", ".", "4", "/">>,
       <<"b", "i", "n", "/">> >>

Listings == {Listing1, Listing2}

\* int(s[:1]) does not raise ValueError
StartsWithDigit(s) == Len(s) > 0 /\ s[1] \in Digits

\* the loop of get_valid_python_versions over links[1:]
RECURSIVE ScanVersions(_)
ScanVersions(links) ==
    IF links = <<>> THEN <<>>
    ELSE IF ~StartsWithDigit(Head(links)) THEN <<>>
         ELSE <<DropLast(Head(links))>> \o ScanVersions(Tail(links))

get_valid_python_versions(listing) == ScanVersions(Tail(listing))

InList(x, s) == \E i \in DOMAIN s : s[i] = x

\* verify_python_version, given the listing the site would serve
verify_python_version(version, listing) ==
    StartsWithDigit(version) /\ InList(version, get_valid_python_versions(listing))

----------------------------------------------------------------------------
\* The filesystem

NoInstall == [exists |-> FALSE, hasBin |-> FALSE, bin |-> <<>>]

EmptyLinks == [n \in {} |-> NoInstall]

\* Neither PythonVersions nor bin exists in a fresh checkout.
InitFs ==
    [dl |-> FALSE,                      \* DOWNLOAD_LOCATION exists
     inst |-> [v \in Vers |-> NoInstall], \* DOWNLOAD_LOCATION/<version>
     build |-> {},                      \* DOWNLOAD_LOCATION/Python-<version>
     tgz |-> {},                        \* DOWNLOAD_LOCATION/<version>.tgz
     lk |-> FALSE,                      \* LINKS_LOCATION exists
     links |-> EmptyLinks]              \* alias name -> the file it points to

Without(links, name) == [n \in DOMAIN links \ {name} |-> links[n]]

\* os.path.exists(os.path.join(DOWNLOAD_LOCATION, name))
PathExists(f, name) ==
    /\ f.dl
    /\ \/ name \in Vers /\ f.inst[name].exists
       \/ \E v \in f.build : name = BuildName(v)
       \/ \E v \in f.tgz : name = TgzName(v)

\* os.listdir(BIN_DIR) succeeds
HasBinDir(f, name) == name \in Vers /\ f.inst[name].exists /\ f.inst[name].hasBin

\* os.listdir(DOWNLOAD_LOCATION)
Entries(f) ==
    {v \in Vers : f.inst[v].exists}
        \cup {BuildName(v) : v \in f.build}
        \cup {TgzName(v) : v \in f.tgz}

\* The loop "for link in SYMLINKS: os.remove(...)" from index i on.  os.remove
\* raises when the link is absent, and at index failAt for an external reason
\* (hit tells whether that index was reached).
RECURSIVE RemoveLinks(_, _, _, _)
RemoveLinks(links, names, i, failAt) ==
    IF i > Len(names) THEN [links |-> links, raised |-> FALSE, hit |-> FALSE]
    ELSE IF names[i] \notin DOMAIN links
         THEN [links |-> links, raised |-> TRUE, hit |-> FALSE]
         ELSE IF i = failAt
              THEN [links |-> links, raised |-> TRUE, hit |-> TRUE]
              ELSE RemoveLinks(Without(links, names[i]), names, i + 1, failAt)

\* delete_version without the early return of lines 134-135
delete_version_no_exists_check(f, version, failAt) ==
    IF ~HasBinDir(f, version) THEN [fs |-> f, raised |-> TRUE, hit |-> FALSE]
    ELSE LET bin == f.inst[version].bin
             SYMLINKS == [i \in DOMAIN bin |-> AliasName(version, bin[i])]
             r == RemoveLinks(f.links, SYMLINKS, 1, failAt)
         IN  [fs |-> [f EXCEPT !.inst[version] = NoInstall, !.links = r.links],
              raised |-> r.raised, hit |-> r.hit]

\* delete_version with the os.remove loop before shutil.rmtree
delete_version_links_first(f, version, failAt) ==
    IF ~PathExists(f, version) THEN [fs |-> f, raised |-> FALSE, hit |-> FALSE]
    ELSE IF ~HasBinDir(f, version) THEN [fs |-> f, raised |-> TRUE, hit |-> FALSE]
    ELSE LET bin == f.inst[version].bin
             SYMLINKS == [i \in DOMAIN bin |-> AliasName(version, bin[i])]
             r == RemoveLinks(f.links, SYMLINKS, 1, failAt)
         IN  [fs |-> [f EXCEPT !.inst[version] = IF r.raised THEN @ ELSE NoInstall,
                               !.links = r.links],
              raised |-> r.raised, hit |-> r.hit]

\* delete_version: the filesystem afterwards and whether an exception left it
delete_version(f, version, failAt) ==
    IF ~PathExists(f, version) THEN [fs |-> f, raised |-> FALSE, hit |-> FALSE]
    ELSE IF ~HasBinDir(f, version) THEN [fs |-> f, raised |-> TRUE, hit |-> FALSE]
    ELSE LET bin == f.inst[version].bin
             SYMLINKS == [i \in DOMAIN bin |-> AliasName(version, bin[i])]
             r == RemoveLinks(f.links, SYMLINKS, 1, failAt)
         IN  [fs |-> [f EXCEPT !.inst[version] = NoInstall, !.links = r.links],
              raised |-> r.raised, hit |-> r.hit]

\* The loop of create_symlinks from index i on.  ln -s exits non-zero when the
\* link name exists, and at index failAt for an external reason.
RECURSIVE MakeLinks(_, _, _, _, _)
MakeLinks(links, version, bin, i, failAt) ==
    IF i > Len(bin) THEN [links |-> links, ok |-> TRUE, hit |-> FALSE]
    ELSE LET name == AliasName(version, bin[i])
         IN  IF name \in DOMAIN links
             THEN [links |-> links, ok |-> FALSE, hit |-> FALSE]
             ELSE IF i = failAt
                  THEN [links |-> links, ok |-> FALSE, hit |-> TRUE]
                  ELSE MakeLinks(links @@ (name :> [v |-> version, exe |-> bin[i]]),
                                 version, bin, i + 1, failAt)

\* create_symlinks returning after the first executable of the listing
create_symlinks_first_only(f, version, failAt) ==
    LET bin == f.inst[version].bin
        r == MakeLinks(f.links, version, SubSeq(bin, 1, 1), 1, failAt)
    IN  [fs |-> [f EXCEPT !.lk = TRUE, !.links = r.links], ok |-> r.ok, hit |-> r.hit]

\* create_symlinks: the filesystem afterwards and the status returned
create_symlinks(f, version, failAt) ==
    LET r == MakeLinks(f.links, version, f.inst[version].bin, 1, failAt)
    IN  [fs |-> [f EXCEPT !.lk = TRUE, !.links = r.links], ok |-> r.ok, hit |-> r.hit]

\* What a failed `make altinstall` can leave under the prefix.
PartialInstalls(v) ==
    {NoInstall, [exists |-> TRUE, hasBin |-> FALSE, bin |-> <<>>]}
        \cup {[exists |-> TRUE, hasBin |-> TRUE, bin |-> SubSeq(p, 1, k)] :
                 p \in Perms(BinOf(v)), k \in 0..Cardinality(BinOf(v))}

\* What a successful `make altinstall` leaves: bin in some directory order.
FullInstalls(v) ==
    {[exists |-> TRUE, hasBin |-> TRUE, bin |-> p] : p \in Perms(BinOf(v))}

FailIndexes(f, name) == 0..(IF name \in Vers THEN Len(f.inst[name].bin) ELSE 0)

Cost(n) == IF n > 0 THEN 1 ELSE 0

----------------------------------------------------------------------------
\* The commands

\* No query of the remote listing has been made.
NoAnswer == [asked |-> FALSE, reached |-> FALSE, listing |-> <<>>]

\* execute_terminal_command has not been called.
NotCalled ==
    [at |-> "call", spawned |-> FALSE, alive |-> FALSE, script |-> <<>>,
     returncode |-> 0, stdout |-> 0, stderr |-> 0, value |-> "none"]

Init ==
    /\ fs = InitFs
    /\ pc = "idle"
    /\ arg = <<>>
    /\ todo = {}
    /\ cores = "unset"
    /\ result = "none"
    /\ trace = <<>>
    /\ pre = InitFs
    /\ catalog = NoAnswer
    /\ stopped = {}
    /\ faults = 0
    /\ runner = NotCalled

ArgInputs ==
    {<<"install", v>> : v \in ArgVersions}
        \cup {<<"remove", v>> : v \in ArgVersions}
        \cup {<<"clean">>, <<"install">>, <<"clean", V27>>, <<"list">>}

\* A command ends: its value (or the exception that left it) is recorded.
Ends(value, steps) ==
    /\ pc' = "done"
    /\ result' = value
    /\ trace' = trace \o steps

Goes(label, steps) ==
    /\ pc' = label
    /\ trace' = trace \o steps
    /\ UNCHANGED result

\* main: the dispatch on the lower-cased argument list
main(arguments) ==
    /\ pc = "idle"
    /\ pc' = IF arguments[1] = "install" /\ Len(arguments) = 2 THEN "install"
             ELSE IF arguments[1] = "remove" /\ Len(arguments) = 2 THEN "remove"
             ELSE IF arguments[1] = "clean" /\ Len(arguments) = 1 THEN "clean"
             ELSE "help"
    /\ arg' = IF Len(arguments) = 2 /\ arguments[1] \in {"install", "remove"}
              THEN arguments[2] ELSE <<>>
    /\ result' = "running"
    /\ trace' = <<pc'>>
    /\ pre' = fs
    /\ catalog' = NoAnswer
    /\ stopped' = IF pc' = "remove" /\ arg' \in stopped THEN stopped ELSE {}
    /\ UNCHANGED <<fs, todo, cores, faults, runner>>

display_help ==
    /\ pc = "help"
    /\ Ends("None", <<>>)
    /\ UNCHANGED <<fs, arg, todo, cores, pre, catalog, stopped, faults, runner>>

\* The listing fetched before the first character is looked at
VerifyQueriesFirst(at, next, invalid) ==
    /\ pc = at
    /\ \/ /\ Ends("exception", <<"verify", "query">>)
          /\ catalog' = [asked |-> TRUE, reached |-> FALSE, listing |-> <<>>]
       \/ \E listing \in Listings :
             /\ catalog' = [asked |-> TRUE, reached |-> TRUE, listing |-> listing]
             /\ IF verify_python_version(arg, listing)
                THEN Goes(next, <<"verify", "query">>)
                ELSE Ends(invalid, <<"verify", "query", "invalid">>)
    /\ UNCHANGED <<fs, arg, todo, cores, pre, stopped, faults, runner>>

\* The caller going on whatever verify_python_version returned
VerifyResultIgnored(at, next, invalid) ==
    /\ pc = at
    /\ \/ /\ ~StartsWithDigit(arg)
          /\ Goes(next, <<"verify", "invalid">>)
          /\ UNCHANGED catalog
       \/ /\ StartsWithDigit(arg)
          /\ \/ /\ Ends("exception", <<"verify", "query">>)
                /\ catalog' = [asked |-> TRUE, reached |-> FALSE, listing |-> <<>>]
             \/ \E listing \in Listings :
                   /\ catalog' = [asked |-> TRUE, reached |-> TRUE, listing |-> listing]
                   /\ IF verify_python_version(arg, listing)
                      THEN Goes(next, <<"verify", "query">>)
                      ELSE Goes(next, <<"verify", "query", "invalid">>)
    /\ UNCHANGED <<fs, arg, todo, cores, pre, stopped, faults, runner>>

\* verify_python_version as called by install (line 227) and by the remove
\* branch of main (line 269); next is where the caller continues, invalid
\* what it returns for a version that is not valid.
Verify(at, next, invalid) ==
    /\ pc = at
    /\ \/ /\ ~StartsWithDigit(arg)
          /\ Ends(invalid, <<"verify", "invalid">>)
          /\ UNCHANGED catalog
       \/ /\ StartsWithDigit(arg)
          /\ \/ /\ Ends("exception", <<"verify", "query">>)  \* urlopen raises
                /\ catalog' = [asked |-> TRUE, reached |-> FALSE, listing |-> <<>>]
             \/ \E listing \in Listings :
                   /\ catalog' = [asked |-> TRUE, reached |-> TRUE, listing |-> listing]
                   /\ IF verify_python_version(arg, listing)
                      THEN Goes(next, <<"verify", "query">>)
                      ELSE Ends(invalid, <<"verify", "query", "invalid">>)
    /\ UNCHANGED <<fs, arg, todo, cores, pre, stopped, faults, runner>>

InstallVerifyResultIgnored == VerifyResultIgnored("install", "install_exists", "False")

InstallVerify == Verify("install", "install_exists", "False")

\* The remove branch without the call of verify_python_version
RemoveWithoutVerify ==
    /\ pc = "remove"
    /\ Goes("remove_exists", <<>>)
    /\ UNCHANGED <<fs, arg, todo, cores, pre, catalog, stopped, faults, runner>>

RemoveVerify == Verify("remove", "remove_exists", "None")

\* The prompt's answer ignored: the existing version is deleted on N as on Y.
InstallExistingIgnoresAnswer ==
    /\ pc = "install_exists"
    /\ IF PathExists(fs, arg)
       THEN LET d == delete_version(fs, arg, 0)
            IN  /\ fs' = d.fs
                /\ \/ Ends("False", <<"confirm", "declined">>)
                   \/ IF d.raised
                      THEN Ends("exception", <<"confirm", "purge_install">>)
                      ELSE Goes("download", <<"confirm", "purge_install">>)
       ELSE /\ Goes("download", <<>>)
            /\ UNCHANGED fs
    /\ UNCHANGED <<arg, todo, cores, pre, catalog, stopped, faults, runner>>

\* install, lines 230-234: the prompt over an existing version and the delete
\* that follows a Y.
InstallExisting ==
    /\ pc = "install_exists"
    /\ IF PathExists(fs, arg)
       THEN \/ /\ Ends("False", <<"confirm", "declined">>)   \* answered N
               /\ UNCHANGED <<fs, faults>>
            \/ \E failAt \in FailIndexes(fs, arg) :           \* answered Y
                  LET d == delete_version(fs, arg, failAt)
                  IN  /\ failAt > 0 => d.hit
                      /\ faults + Cost(failAt) <= MaxFaults
                      /\ faults' = faults + Cost(failAt)
                      /\ fs' = d.fs
                      /\ IF d.raised
                         THEN Ends("exception", <<"confirm", "purge_install">>)
                         ELSE Goes("download", <<"confirm", "purge_install">>)
       ELSE /\ Goes("download", <<>>)
            /\ UNCHANGED <<fs, faults>>
    /\ UNCHANGED <<arg, todo, cores, pre, catalog, stopped, runner>>

\* download_python_version; urlretrieve, tarfile.open and extractall raise on
\* failure, and nothing in install catches it.
Download ==
    /\ pc = "download"
    /\ \/ /\ faults < MaxFaults                               \* urlretrieve raises
          /\ faults' = faults + 1
          /\ \E partial \in BOOLEAN :
                fs' = [fs EXCEPT !.dl = TRUE,
                                 !.tgz = IF partial THEN @ \cup {arg} ELSE @]
          /\ Ends("exception", <<"fetch", "failed">>)
       \/ /\ faults < MaxFaults                               \* the extraction raises
          /\ faults' = faults + 1
          /\ \E partial \in BOOLEAN :
                fs' = [fs EXCEPT !.dl = TRUE,
                                 !.tgz = @ \cup {arg},
                                 !.build = IF partial THEN @ \cup {arg} ELSE @]
          /\ Ends("exception", <<"fetch", "extract", "failed">>)
       \/ /\ fs' = [fs EXCEPT !.dl = TRUE,
                              !.tgz = @ \ {arg},
                              !.build = @ \cup {arg}]
          /\ Goes("configure", <<"fetch", "extract">>)
          /\ UNCHANGED faults
    /\ UNCHANGED <<arg, todo, cores, pre, catalog, stopped, runner>>

\* shutil.rmtree(os.path.join(DOWNLOAD_LOCATION, f"Python-{version}"))
RemoveBuildTree(f, version) == [f EXCEPT !.build = @ \ {version}]

\* build_python_version up to ./configure (lines 160-172), and install's
\* lines 237-239 when it returns False.
Configure ==
    /\ pc = "configure"
    /\ LET d == delete_version(fs, arg, 0)
       IN  IF d.raised
           THEN /\ fs' = d.fs
                /\ Ends("exception", <<"purge_install">>)
                /\ UNCHANGED faults
           ELSE \/ /\ fs' = d.fs
                   /\ Goes("probe", <<"purge_install", "configure">>)
                   /\ UNCHANGED faults
                \/ /\ faults < MaxFaults
                   /\ faults' = faults + 1
                   /\ fs' = RemoveBuildTree(d.fs, arg)
                   /\ Ends("False", <<"purge_install", "configure", "failed",
                                     "rollback_staging">>)
    /\ UNCHANGED <<arg, todo, cores, pre, catalog, stopped, runner>>

\* A failed nproc treated like a failed build step
ProbeAbortsOnFailure ==
    /\ pc = "probe"
    /\ \/ /\ cores' = "nproc"
          /\ Goes("make", <<"probe">>)
          /\ UNCHANGED <<fs, faults>>
       \/ /\ faults < MaxFaults
          /\ faults' = faults + 1
          /\ cores' = "1"
          /\ fs' = [fs EXCEPT !.build = @ \ {arg}]
          /\ Ends("False", <<"probe", "probe_failed", "failed", "rollback_staging">>)
    /\ UNCHANGED <<arg, todo, pre, catalog, stopped, runner>>

\* lines 175-178: nproc, and the fallback to 1
Probe ==
    /\ pc = "probe"
    /\ \/ /\ cores' = "nproc"
          /\ Goes("make", <<"probe">>)
          /\ UNCHANGED faults
       \/ /\ faults < MaxFaults
          /\ faults' = faults + 1
          /\ cores' = "1"
          /\ Goes("make", <<"probe", "probe_failed">>)
    /\ UNCHANGED <<fs, arg, todo, pre, catalog, stopped, runner>>

\* the -j argument of f"make -j{core_output}"
Jobs(core_output) == IF core_output = "1" THEN "-j1" ELSE "-jN"

\* make's exit status ignored: the failure is reported and altinstall runs
MakeIgnoresStatus ==
    /\ pc = "make"
    /\ \/ /\ Goes("altinstall", <<"make", Jobs(cores)>>)
          /\ UNCHANGED <<fs, faults>>
       \/ /\ faults < MaxFaults
          /\ faults' = faults + 1
          /\ Goes("altinstall", <<"make", Jobs(cores), "failed">>)
          /\ UNCHANGED fs
    /\ UNCHANGED <<arg, todo, cores, pre, catalog, stopped, runner>>

\* lines 181-185: make -j<core_output>
Make ==
    /\ pc = "make"
    /\ \/ /\ Goes("altinstall", <<"make", Jobs(cores)>>)
          /\ UNCHANGED <<fs, faults>>
       \/ /\ faults < MaxFaults
          /\ faults' = faults + 1
          /\ fs' = RemoveBuildTree(fs, arg)
          /\ Ends("False", <<"make", Jobs(cores), "failed", "rollback_staging">>)
    /\ UNCHANGED <<arg, todo, cores, pre, catalog, stopped, runner>>

\* lines 188-199: make altinstall, then the build directory is deleted (line
\* 195); after a failure install deletes it (line 238)
AltInstall ==
    /\ pc = "altinstall"
    /\ \/ \E built \in FullInstalls(arg) :
             /\ fs' = RemoveBuildTree([fs EXCEPT !.inst[arg] = built], arg)
             /\ Goes("publish", <<"altinstall", "purge_staging">>)
             /\ UNCHANGED faults
       \/ \E left \in PartialInstalls(arg) :
             /\ faults < MaxFaults
             /\ faults' = faults + 1
             /\ fs' = RemoveBuildTree([fs EXCEPT !.inst[arg] = left], arg)
             /\ Ends("False", <<"altinstall", "failed", "rollback_staging">>)
    /\ UNCHANGED <<arg, todo, cores, pre, catalog, stopped, runner>>

\* install, lines 240-244: create_symlinks, and delete_version when it fails
Publish ==
    /\ pc = "publish"
    /\ \E lnFail \in FailIndexes(fs, arg) :
          LET c == create_symlinks(fs, arg, lnFail)
          IN  /\ lnFail > 0 => c.hit
              /\ IF c.ok
                 THEN /\ fs' = c.fs
                      /\ faults' = faults
                      /\ Ends("True", <<"publish">>)
                 ELSE \E rmFail \in FailIndexes(c.fs, arg) :
                         LET d == delete_version(c.fs, arg, rmFail)
                         IN  /\ rmFail > 0 => d.hit
                             /\ faults + Cost(lnFail) + Cost(rmFail) <= MaxFaults
                             /\ faults' = faults + Cost(lnFail) + Cost(rmFail)
                             /\ fs' = d.fs
                             /\ Ends(IF d.raised THEN "exception" ELSE "False",
                                     <<"publish", "failed", "purge_install">>)
    /\ UNCHANGED <<arg, todo, cores, pre, catalog, stopped, runner>>

\* main, lines 272-279: the remove branch after the version was verified
Remove ==
    /\ pc = "remove_exists"
    /\ IF ~PathExists(fs, arg)
       THEN /\ Ends("None", <<"absent">>)
            /\ UNCHANGED <<fs, faults, stopped>>
       ELSE \/ /\ Ends("None", <<"confirm", "declined">>)     \* answered N
               /\ UNCHANGED <<fs, faults, stopped>>
            \/ \E failAt \in FailIndexes(fs, arg) :           \* answered Y
                  LET d == delete_version(fs, arg, failAt)
                  IN  /\ failAt > 0 => d.hit
                      /\ faults + Cost(failAt) <= MaxFaults
                      /\ faults' = faults + Cost(failAt)
                      /\ fs' = d.fs
                      /\ stopped' = IF d.raised /\ ~d.fs.inst[arg].exists
                                    THEN {arg} ELSE stopped
                      /\ Ends(IF d.raised THEN "exception" ELSE "None",
                              <<"confirm", "purge_install">>)
    /\ UNCHANGED <<arg, todo, cores, pre, catalog, runner>>

\* clean_versions, lines 247-254: the listing and the single prompt
Clean ==
    /\ pc = "clean"
    /\ IF ~fs.dl
       THEN /\ Ends("exception", <<"list">>)                  \* os.listdir raises
            /\ UNCHANGED todo
       ELSE IF Entries(fs) = {}
            THEN /\ Ends("None", <<"list">>)
                 /\ UNCHANGED todo
            ELSE \/ /\ Ends("None", <<"list", "confirm", "declined">>)
                    /\ UNCHANGED todo
                 \/ /\ Goes("clean_loop", <<"list", "confirm">>)
                    /\ todo' = Entries(fs)
    /\ UNCHANGED <<fs, arg, cores, pre, catalog, stopped, faults, runner>>

\* clean_versions, lines 255-256: one turn of the loop, the listing being in
\* arbitrary order
CleanStep ==
    /\ pc = "clean_loop"
    /\ \E version \in todo :
          \E failAt \in FailIndexes(fs, version) :
             LET d == delete_version(fs, version, failAt)
             IN  /\ failAt > 0 => d.hit
                 /\ faults + Cost(failAt) <= MaxFaults
                 /\ faults' = faults + Cost(failAt)
                 /\ fs' = d.fs
                 /\ todo' = todo \ {version}
                 /\ IF d.raised
                    THEN Ends("exception", <<"purge_install">>)
                    ELSE IF todo' = {}
                         THEN Ends("None", <<"purge_install">>)
                         ELSE Goes("clean_loop", <<"purge_install">>)
    /\ UNCHANGED <<arg, cores, pre, catalog, stopped, runner>>

\* The process exits; the next command starts from the filesystem it left.
Exit ==
    /\ pc = "done"
    /\ pc' = "idle"
    /\ arg' = <<>>
    /\ todo' = {}
    /\ cores' = "unset"
    /\ result' = "none"
    /\ trace' = <<>>
    /\ pre' = fs
    /\ catalog' = NoAnswer
    /\ UNCHANGED <<fs, stopped, faults, runner>>

Next ==
    \/ \E arguments \in ArgInputs : main(arguments)
    \/ display_help
    \/ InstallVerify
    \/ InstallExisting
    \/ Download
    \/ Configure
    \/ Probe
    \/ Make
    \/ AltInstall
    \/ Publish
    \/ RemoveVerify
    \/ Remove
    \/ Clean
    \/ CleanStep
    \/ Exit

Spec == Init /\ [][Next]_vars

----------------------------------------------------------------------------
\* execute_terminal_command and the command it runs

\* What a command writes, line by line: to its standard output or to its
\* standard error.
Scripts ==
    UNION {[1..n -> {"out", "err"}] : n \in 0..MaxLines}

\* Exit statuses: success, an error status, death by a signal (negative in
\* Popen.returncode)
ExitCodes == {0, 1, -9}

\* lines 74-78: Popen with both streams piped; FileNotFoundError is caught
Popen ==
    /\ runner.at = "call"
    /\ \/ runner' = [runner EXCEPT !.at = "returned", !.value = "False"]
       \/ \E script \in Scripts, returncode \in ExitCodes :
             runner' = [at |-> "poll", spawned |-> TRUE, alive |-> TRUE,
                        script |-> script, returncode |-> returncode,
                        stdout |-> 0, stderr |-> 0, value |-> "none"]
    /\ UNCHANGED <<fs, pc, arg, todo, cores, result, trace, pre, catalog,
                   stopped, faults>>

\* The command writes its next line; the write blocks while the pipe is full.
CommandWrites ==
    /\ runner.alive
    /\ runner.script # <<>>
    /\ IF Head(runner.script) = "out"
       THEN /\ runner.stdout < PipeCap
            /\ runner' = [runner EXCEPT !.stdout = @ + 1, !.script = Tail(@)]
       ELSE /\ runner.stderr < PipeCap
            /\ runner' = [runner EXCEPT !.stderr = @ + 1, !.script = Tail(@)]
    /\ UNCHANGED <<fs, pc, arg, todo, cores, result, trace, pre, catalog,
                   stopped, faults>>

\* The command exits after its last line; its ends of the pipes close.
CommandExits ==
    /\ runner.alive
    /\ runner.script = <<>>
    /\ runner' = [runner EXCEPT !.alive = FALSE]
    /\ UNCHANGED <<fs, pc, arg, todo, cores, result, trace, pre, catalog,
                   stopped, faults>>

\* lines 80 and 87: process.poll() as the loop test, and the value returned
Poll ==
    /\ runner.at = "poll"
    /\ IF runner.alive
       THEN runner' = [runner EXCEPT !.at = "readline"]
       ELSE runner' = [runner EXCEPT
                          !.at = "returned",
                          !.value = IF runner.returncode # 0 THEN "False" ELSE "True"]
    /\ UNCHANGED <<fs, pc, arg, todo, cores, result, trace, pre, catalog,
                   stopped, faults>>

\* line 82: process.stdout.readline() returns a buffered line, or "" at end
\* of file, and blocks while the pipe is empty and the command holds it open
Readline ==
    /\ runner.at = "readline"
    /\ \/ /\ runner.stdout > 0
          /\ runner' = [runner EXCEPT !.stdout = @ - 1, !.at = "poll"]
       \/ /\ runner.stdout = 0
          /\ ~runner.alive
          /\ runner' = [runner EXCEPT !.at = "poll"]
    /\ UNCHANGED <<fs, pc, arg, todo, cores, result, trace, pre, catalog,
                   stopped, faults>>

RunnerNext ==
    \/ Popen
    \/ CommandWrites
    \/ CommandExits
    \/ Poll
    \/ Readline

RunnerSpec == Init /\ [][RunnerNext]_vars

----------------------------------------------------------------------------
\* Properties

\* The aliases in the links directory that point into version v's install root
AliasesOf(f, v) == {n \in DOMAIN f.links : f.links[n].v = v}

\* The file alias n points to exists
Resolves(f, n) ==
    LET t == f.links[n]
    IN  f.inst[t.v].exists /\ f.inst[t.v].hasBin /\ InList(t.exe, f.inst[t.v].bin)

\* Version v is installed: `make altinstall` succeeded for it
FullyInstalled(f, v) == f.inst[v] \in FullInstalls(v)

\* Version v is installed and each of its executables has its alias
Published(f, v) ==
    /\ FullyInstalled(f, v)
    /\ \A exe \in BinOf(v) :
          /\ AliasName(v, exe) \in DOMAIN f.links
          /\ f.links[AliasName(v, exe)] = [v |-> v, exe |-> exe]

Returned(command) == pc = "done" /\ trace[1] = command

Did(step) == InList(step, trace)

PipelineSteps ==
    {"fetch", "extract", "configure", "probe", "make", "altinstall", "publish"}

\* C1: once install(v) has reported failure after a failure at a pipeline
\* step, v has no install root and no alias.
C1_RollbackCompleteness ==
    (Returned("install") /\ result = "False" /\ Did("fetch"))
        => /\ ~fs.inst[arg].exists
           /\ AliasesOf(fs, arg) = {}

\* C2: an install(v) that fails, no external step having failed (so an alias
\* name that exists made it fail), leaves the install root and the aliases of
\* every other installed version w present and unchanged.
C2_UnrelatedVersionsUntouched ==
    (Returned("install") /\ result \in {"False", "exception"} /\ faults = 0)
        => \A w \in Vers \ {arg} :
              FullyInstalled(pre, w)
                  => /\ fs.inst[w] = pre.inst[w]
                     /\ \A n \in AliasesOf(pre, w) :
                           n \in DOMAIN fs.links /\ fs.links[n] = pre.links[n]

\* C3: between commands every alias in the links directory points to an
\* executable that exists in the install root of an installed version.
C3_NoOrphanedAliases ==
    pc = "idle" => \A n \in DOMAIN fs.links : Resolves(fs, n)

\* C4: install(v) over an existing v with the confirmation declined returns
\* failure, leaves the filesystem as it was and runs no pipeline step.
C4_DeclinedOverwriteChangesNothing ==
    (Returned("install") /\ Did("declined"))
        => /\ result = "False"
           /\ fs = pre
           /\ \A step \in PipelineSteps \cup {"purge_install", "purge_staging"} :
                 ~Did(step)

C4_Witness ==
    /\ Returned("install")
    /\ Did("declined")
    /\ Published(pre, arg)

\* C5: when a remove(v) stopped after purging the install root with an alias
\* of v left, the remove(v) invoked again completes the removal.
C5_RemoveRetryCompletes ==
    (/\ Returned("remove")
     /\ arg \in stopped
     /\ ~pre.inst[arg].exists
     /\ AliasesOf(pre, arg) # {}
     /\ ~Did("invalid")
     /\ result = "None")
        => /\ ~fs.inst[arg].exists
           /\ AliasesOf(fs, arg) = {}

\* C6: a confirmed clean() over installed versions visits every one of them,
\* whether or not removing one of them failed.
C6_CleanVisitsEveryVersion ==
    (/\ pc = "done"
     /\ trace[1] = "clean"
     /\ Did("confirm")
     /\ ~Did("declined")
     /\ Entries(pre) \subseteq Vers
     /\ \A v \in Entries(pre) : Published(pre, v))
        => todo = {}

\* C7 (as claimed): remove(v) of an installed v reaches its confirmation
\* whatever the catalog answers.
C7_CatalogNeverBlocksRemove ==
    (Returned("remove") /\ arg \in Vers /\ Published(pre, arg))
        => Did("confirm")

Listed(v) == catalog.reached /\ InList(v, get_valid_python_versions(catalog.listing))

\* C7 (amended): remove(v) asks for confirmation or changes the filesystem
\* only after the catalog was reached and lists v, and so does install(v);
\* clean makes no catalog query.
C7_RemoveRequiresCatalog ==
    pc # "idle"
        => /\ (trace[1] \in {"remove", "install"} /\ (Did("confirm") \/ fs # pre))
                 => Listed(arg)
           /\ trace[1] = "clean" => ~catalog.asked

C7_Witness ==
    /\ Returned("remove")
    /\ arg \in Vers
    /\ Published(pre, arg)
    /\ catalog.reached
    /\ ~Listed(arg)
    /\ fs = pre

\* C8: a completed remove(v) of an installed version, no external step
\* having failed, deletes no alias that belongs to another installed version.
C8_RemoveDeletesOnlyOwnAliases ==
    (/\ Returned("remove")
     /\ result = "None"
     /\ Did("purge_install")
     /\ FullyInstalled(pre, arg)
     /\ faults = 0)
        => \A n \in DOMAIN pre.links :
              (pre.links[n].v # arg /\ FullyInstalled(pre, pre.links[n].v))
                  => n \in DOMAIN fs.links /\ fs.links[n] = pre.links[n]

AltpyPydoc == <<"a", "l", "t", "p", "y", "-", "p", "y", "d", "o", "c">>

AltpyPython27 ==
    <<"a", "l", "t", "p", "y", "-", "p", "y", "t", "h", "o", "n", "2", ".", "7">>

AltpyPython279 ==
    <<"a", "l", "t", "p", "y", "-", "p", "y", "t", "h", "o", "n",
      "2", ".", "7", ".", "9">>

AltpyPython31141 ==
    <<"a", "l", "t", "p", "y", "-", "p", "y", "t", "h", "o", "n",
      "3", ".", "1", "1", ".", "4", "1">>

C10_StagingNeverOutlivesInstall ==
    (Returned("install") /\ Did("fetch"))
        => arg \notin fs.tgz /\ arg \notin fs.build

\* C11: install(v) ends by returning True or False to its caller, whichever
\* step failed, never by an exception.
C11_InstallReturnsBoolean ==
    Returned("install") => result \in {"True", "False"}

\* The first character of v is no digit (v may be empty)
NoLeadingDigit(v) == Len(v) = 0 \/ v[1] \notin Digits

\* C12: for an identifier whose first character is no digit the check is
\* false and the remote listing is never queried.
C12_CatalogShortCircuit ==
    /\ \A v \in ArgVersions, listing \in Listings :
          NoLeadingDigit(v) => ~verify_python_version(v, listing)
    /\ (pc # "idle" /\ trace[1] \in {"install", "remove"} /\ NoLeadingDigit(arg))
          => /\ ~catalog.asked
             /\ ~Did("query")
             /\ Did("verify") =>
                   (pc = "done" /\ result = IF trace[1] = "install" THEN "False" ELSE "None")

C12_Witness ==
    /\ Returned("install")
    /\ arg = VEmpty
    /\ Did("verify")
    /\ ~catalog.asked

\* Every name delete_version can be called with
PurgeNames ==
    ArgVersions \cup {BuildName(v) : v \in Vers} \cup {TgzName(v) : v \in Vers}

\* C13: delete_version of a name with no install root raises nothing and
\* changes nothing, so a second purge leaves what the first left; the purge
\* build_python_version makes before ./configure is such a call.
C13_PurgeOfAbsentIsNoOp ==
    /\ \A v \in PurgeNames :
          ~PathExists(fs, v)
              => \A k \in 0..2 :
                    /\ delete_version(fs, v, k).fs = fs
                    /\ ~delete_version(fs, v, k).raised
                    /\ delete_version(delete_version(fs, v, k).fs, v, k).fs = fs
    /\ (pc = "probe" /\ ~Did("confirm"))
          => fs.inst = pre.inst /\ fs.links = pre.links

C13_Witness ==
    /\ pc = "probe"
    /\ ~Did("confirm")
    /\ ~PathExists(fs, arg)
    /\ DOMAIN fs.links # {}
    /\ \E w \in Vers : fs.inst[w].exists

\* The aliases in the links directory that point to executable exe of v
AliasesTo(f, v, exe) == {n \in DOMAIN f.links : f.links[n] = [v |-> v, exe |-> exe]}

\* C14: an install(v) that started with v not installed and in which every
\* step up to publish succeeded returns True; v's install root then exists,
\* no other version's install root has changed, and every executable of v's
\* bin directory has exactly one alias, which resolves to it.
C14_SuccessfulInstallIsInstalled ==
    (/\ Returned("install")
     /\ ~PathExists(pre, arg)
     /\ Did("publish")
     /\ ~Did("failed"))
        => /\ result = "True"
           /\ catalog.reached /\ Listed(arg)
           /\ FullyInstalled(fs, arg)
           /\ \A w \in Vers \ {arg} : fs.inst[w] = pre.inst[w]
           /\ \A exe \in BinOf(arg) :
                 /\ Cardinality(AliasesTo(fs, arg, exe)) = 1
                 /\ \A n \in AliasesTo(fs, arg, exe) : Resolves(fs, n)

C14_Witness ==
    /\ Returned("install")
    /\ result = "True"
    /\ arg = V279
    /\ ~PathExists(pre, arg)
    /\ Published(pre, V3114)
    /\ Published(fs, V279)
    /\ Cardinality(BinOf(arg)) > 1

\* The steps of one install in the order the source runs them
PipelineOrder ==
    <<"fetch", "extract", "configure", "probe", "make", "altinstall",
      "purge_staging", "publish">>

\* The entries of s that are in set, in their order
RECURSIVE Keep(_, _)
Keep(s, set) ==
    IF s = <<>> THEN <<>>
    ELSE (IF Head(s) \in set THEN <<Head(s)>> ELSE <<>>) \o Keep(Tail(s), set)

PipelineStepsRun == Keep(trace, {PipelineOrder[i] : i \in DOMAIN PipelineOrder})

\* C15: the pipeline steps an install has run are an initial part of fetch,
\* extract, configure, probe, make, altinstall, purge of the staging tree,
\* publish, in that order; once a step has failed the install has ended and
\* no pipeline step, publish included, was run after the failure.
C15_PipelineOrdering ==
    (pc # "idle" /\ trace[1] = "install")
        => /\ Len(PipelineStepsRun) <= Len(PipelineOrder)
           /\ PipelineStepsRun = SubSeq(PipelineOrder, 1, Len(PipelineStepsRun))
           /\ \A i \in DOMAIN trace :
                 trace[i] = "failed"
                     => /\ pc = "done"
                        /\ result # "True"
                        /\ \A j \in DOMAIN trace :
                              j > i => trace[j] \in {"rollback_staging", "purge_install"}

C15_Witness ==
    /\ Returned("install")
    /\ Did("failed")
    /\ PipelineStepsRun = SubSeq(PipelineOrder, 1, 5)
    /\ result = "False"

\* make was run and exited non-zero
MakeFailed ==
    \E i \in DOMAIN trace :
        trace[i] = "make" /\ i + 2 <= Len(trace) /\ trace[i + 2] = "failed"

\* C16: after a failed nproc the install goes on to make, which is run with
\* -j1, and when make succeeds the install goes on to make altinstall.
C16_ParallelismFallback ==
    Did("probe_failed")
        => /\ trace[1] = "install"
           /\ cores = "1"
           /\ pc = "make" \/ Did("make")
           /\ Did("make") => Did("-j1") /\ ~Did("-jN")
           /\ (Did("make") /\ ~MakeFailed) => (pc = "altinstall" \/ Did("altinstall"))

C16_Witness ==
    /\ pc = "altinstall"
    /\ Did("probe_failed")
    /\ Did("-j1")
    /\ ~MakeFailed

\* install(arg) has validated arg and the validation was false
Rejected ==
    /\ pc # "idle"
    /\ trace[1] = "install"
    /\ Did("verify")
    /\ \/ NoLeadingDigit(arg)
       \/ catalog.reached /\ ~verify_python_version(arg, catalog.listing)

\* C17: an install of a version that fails validation returns False, has
\* asked no confirmation, has run no step of the pipeline and no purge, and
\* leaves the filesystem as it was, whatever is installed.
C17_RejectedVersionChangesNothing ==
    Rejected
        => /\ pc = "done"
           /\ result = "False"
           /\ fs = pre
           /\ \A step \in {"confirm", "purge_install", "rollback_staging"} : ~Did(step)
           /\ PipelineStepsRun = <<>>

C17_Witness ==
    /\ Rejected
    /\ arg = V279
    /\ catalog.reached
    /\ Published(pre, V279)
    /\ Published(pre, V3114)
    /\ result = "False"

\* The versions with an install root under the artifact root
InstalledVersions(f) == {v \in Vers : f.inst[v].exists}

\* C18: clean() asks one confirmation when a version is installed and none
\* when no version is installed; confirmed and ended without a failure, it
\* leaves no install root and no alias of a version that was installed;
\* declined, it leaves the filesystem as it was.
C18_CleanRemovesEverything ==
    Returned("clean")
        => /\ InstalledVersions(pre) # {} => Len(Keep(trace, {"confirm"})) = 1
           /\ InstalledVersions(pre) = {} => ~Did("confirm")
           /\ (Did("confirm") /\ ~Did("declined") /\ result = "None")
                 => /\ InstalledVersions(fs) = {}
                    /\ \A v \in InstalledVersions(pre) : AliasesOf(fs, v) = {}
           /\ Did("declined") => fs = pre

\* C19: remove(v) changes the filesystem only when v's install root existed
\* and the confirmation was accepted; without an install root it asks no
\* confirmation; without one, or declined, it changes nothing; and no alias
\* is deleted while the install root is still there.
C19_RemovePreconditions ==
    (pc # "idle" /\ trace[1] = "remove")
        => /\ fs # pre => (PathExists(pre, arg) /\ Did("confirm") /\ ~Did("declined"))
           /\ ~PathExists(pre, arg) => ~Did("confirm")
           /\ (~PathExists(pre, arg) \/ Did("declined")) => fs = pre
           /\ fs.links # pre.links => ~PathExists(fs, arg)

C19_Witness ==
    /\ Returned("remove")
    /\ Did("confirm")
    /\ Published(pre, arg)
    /\ ~PathExists(fs, arg)
    /\ fs.links # pre.links
    /\ AliasesOf(fs, arg) # {}

\* The command waits for room in the standard-error pipe
CommandBlockedOnStderr ==
    /\ runner.alive
    /\ runner.script # <<>>
    /\ Head(runner.script) = "err"
    /\ runner.stderr = PipeCap

\* The call waits in readline for a line of standard output
RunnerBlockedOnStdout ==
    /\ runner.at = "readline"
    /\ runner.alive
    /\ runner.stdout = 0

\* C20: execute_terminal_command is never waiting for standard output while
\* the command it runs is waiting for room in the standard-error pipe; and
\* once it has returned, it has returned True exactly for exit status 0, and
\* False for a missing executable.
C20_RunnerNeverBlockedOnStderr ==
    /\ ~(CommandBlockedOnStderr /\ RunnerBlockedOnStdout)
    /\ runner.at = "returned"
          => /\ ~runner.alive
             /\ runner.value \in {"True", "False"}
             /\ runner.value = "True" <=> (runner.spawned /\ runner.returncode = 0)

====
